---- MODULE Spec2Model ----
(***************************************************************************)
(* A model of the `apa` arbitrary-precision integer crate: the             *)
(* sign-magnitude `Int` (src/int), the two's-complement `ApInt`            *)
(* (src/apint), the allocator wrappers they share (src/alloc.rs,           *)
(* src/mem.rs) and the conversions between `ApInt` and the primitive       *)
(* integer types (src/apint/convert.rs, src/apint/num.rs, src/apint/cmp.rs)*)
(*                                                                         *)
(* Widths are scaled: a limb (usize) has LimbBits bits, the primitive      *)
(* types keep their ratio to the limb of a 64-bit target                   *)
(* (u32 : u64 : u128 = 1/2 : 1 : 2).  Heap lengths are counted in limbs.   *)
(***************************************************************************)
EXTENDS Integers, Sequences, FiniteSets, TLC

\* Limb::BITS, scaled from 64.
LimbBits == 4

\* Bounds of the lifecycle model.
NSlots == 2
NAddrs == 3
MaxLimbs == 3

Pow2(n) == 2 ^ n
WordMod == Pow2(LimbBits)
Word == 0 .. (WordMod - 1)
\* REPR_ONES
WordMax == WordMod - 1

Min(a, b) == IF a < b THEN a ELSE b

(***************************************************************************)
(* Primitive integer types.  A value of a type is a mathematical integer   *)
(* in the type's range; Pattern gives its two's-complement bit pattern.    *)
(***************************************************************************)
Unsigned == {"u32", "u64", "usize", "u128"}
Signed == {"i32", "i64", "isize", "i128"}
Prims == Unsigned \cup Signed

\* size_of::<T>() * 8, in the scale of LimbBits.
BitsOf(t) ==
  CASE t \in {"u32", "i32"} -> LimbBits \div 2
    [] t \in {"u64", "usize", "i64", "isize"} -> LimbBits
    [] t \in {"u128", "i128"} -> 2 * LimbBits

IsSigned(t) == t \in Signed

MinOf(t) == IF IsSigned(t) THEN -Pow2(BitsOf(t) - 1) ELSE 0
MaxOf(t) == IF IsSigned(t) THEN Pow2(BitsOf(t) - 1) - 1 ELSE Pow2(BitsOf(t)) - 1
ValuesOf(t) == MinOf(t) .. MaxOf(t)

\* The bit pattern of the integer v in a register of `bits` bits.
Pattern(v, bits) == v % Pow2(bits)

\* The value of type t whose bit pattern is p.
OfPattern(p, t) ==
  IF IsSigned(t) /\ p >= Pow2(BitsOf(t) - 1) THEN p - Pow2(BitsOf(t)) ELSE p

\* `v as t`: truncation when narrowing, sign or zero extension when widening.
Cast(v, t) == OfPattern(Pattern(v, BitsOf(t)), t)

RECURSIVE BitLen(_)
BitLen(p) == IF p = 0 THEN 0 ELSE 1 + BitLen(p \div 2)

\* leading_zeros / leading_ones of a pattern of `bits` bits.
leading_zeros(p, bits) == bits - BitLen(p)
leading_ones(p, bits) == bits - BitLen(Pow2(bits) - 1 - p)

RECURSIVE BitAnd(_, _)
BitAnd(p, q) ==
  IF p = 0 \/ q = 0 THEN 0
  ELSE (IF p % 2 = 1 /\ q % 2 = 1 THEN 1 ELSE 0) + 2 * BitAnd(p \div 2, q \div 2)

RECURSIVE BitOr(_, _)
BitOr(p, q) ==
  IF p = 0 THEN q
  ELSE IF q = 0 THEN p
  ELSE (IF p % 2 = 1 \/ q % 2 = 1 THEN 1 ELSE 0) + 2 * BitOr(p \div 2, q \div 2)

\* val.wrapping_shr(n) on a value of type t: the shift amount is taken modulo
\* the type's width; the shift is arithmetic for a signed type.
wrapping_shr(v, n, t) == v \div Pow2(n % BitsOf(t))

\* Limb::repr_signed: the limb as isize.
repr_signed(limb) == IF limb >= Pow2(LimbBits - 1) THEN limb - WordMod ELSE limb

\* n.unsigned_abs()
unsigned_abs(n) == IF n < 0 THEN -n ELSE n

(***************************************************************************)
(* ApInt values.  An ApInt is its limb count and its limbs, least          *)
(* significant first: len = 1 is the inline limb (ApIntData.value), a      *)
(* larger len the heap limbs (ApIntData.ptr).                              *)
(***************************************************************************)
Zeroed(n) == [i \in 1 .. n |-> 0]

\* ApInt::from_limb as a value.
StackVal(limb) == [len |-> 1, limbs |-> <<limb>>]

\* The write loop of impl_from_prim over the zeroed limbs of with_capacity:
\* `limb = val & MASK; *int.limb_mut(i) = Limb(limb as LimbRepr);
\*  val = val.wrapping_shr(BITS_LIMB)` for i in 0..iter_to.
RECURSIVE WriteLoop(_, _, _, _, _)
WriteLoop(limbs, val, i, iter_to, t) ==
  IF i >= iter_to THEN limbs
  ELSE LET MASK == Cast(WordMax, t)
           limb == OfPattern(BitAnd(Pattern(val, BitsOf(t)), Pattern(MASK, BitsOf(t))), t)
       IN  WriteLoop([limbs EXCEPT ![i + 1] = Pattern(limb, LimbBits)],
                     wrapping_shr(val, LimbBits, t), i + 1, iter_to, t)

\* impl From<$ty> for ApInt, unsigned arm.
FromUnsigned(val, t) ==
  LET BITS_TY == BitsOf(t)
      FITS == BITS_TY < LimbBits
      bits_val == BITS_TY - leading_zeros(Pattern(val, BITS_TY), BITS_TY)
  IN  IF FITS \/ bits_val < LimbBits
      THEN StackVal(Pattern(val, LimbBits))
      ELSE LET capacity == (bits_val \div LimbBits) + 1
               iter_to == capacity - (IF BITS_TY >= LimbBits THEN 1 ELSE 0)
           IN  [len |-> capacity,
                limbs |-> WriteLoop(Zeroed(capacity), val, 0, iter_to, t)]

\* The signed arm without the sign bit applied to the limb.
FromSigned_unsigned_limb(val, t) ==
  LET BITS_TY == BitsOf(t)
      pat == Pattern(val, BITS_TY)
      abs_val == pat % Pow2(BITS_TY - 1)
      bits_val == BITS_TY - (leading_zeros(pat, BITS_TY) + leading_ones(pat, BITS_TY))
  IN  IF BITS_TY < LimbBits \/ bits_val <= LimbBits
      THEN StackVal(Pattern(abs_val, LimbBits))
      ELSE LET capacity == (bits_val \div LimbBits) + (IF bits_val % LimbBits # 0 THEN 1 ELSE 0)
           IN  [len |-> capacity,
                limbs |-> WriteLoop(Zeroed(capacity), abs_val, 0, capacity, t)]

\* impl From<$ty> for ApInt, signed arm.
FromSigned(val, t) ==
  LET BITS_TY == BitsOf(t)
      FITS == BITS_TY < LimbBits
      SIGN_TY == Pow2(BITS_TY - 1)
      pat == Pattern(val, BITS_TY)
      abs_val == pat % SIGN_TY
      leading == leading_zeros(pat, BITS_TY) + leading_ones(pat, BITS_TY)
      bits_val == BITS_TY - leading
  IN  IF FITS \/ bits_val <= LimbBits
      THEN LET sign_limb == Pattern(OfPattern(BitAnd(pat, SIGN_TY), t), LimbBits)
               limb == BitOr(Pattern(abs_val, LimbBits), sign_limb)
           IN  StackVal(limb)
      ELSE LET q == bits_val \div LimbBits
               r == bits_val % LimbBits
               capacity == q + (IF r # 0 THEN 1 ELSE 0)
           IN  [len |-> capacity,
                limbs |-> WriteLoop(Zeroed(capacity), val, 0, capacity, t)]

\* ApInt::from(val) for val of the primitive type t.
ApInt_from(val, t) == IF IsSigned(t) THEN FromSigned(val, t) ELSE FromUnsigned(val, t)

\* The first `bits` bits of the limbs in memory (little endian).
RECURSIVE LimbsPattern(_, _)
LimbsPattern(limbs, n) ==
  IF n = 0 THEN 0 ELSE limbs[1] + WordMod * LimbsPattern(Tail(limbs), n - 1)

\* impl From<&ApInt> for $ty: the infallible (casting) extraction.
prim_from(x, t) ==
  LET BITS_TY == BitsOf(t)
  IN  IF x.len = 1
      THEN Cast(repr_signed(x.limbs[1]), t)
      ELSE IF BITS_TY <= LimbBits * x.len
      THEN OfPattern(LimbsPattern(x.limbs, x.len) % Pow2(BITS_TY), t)
      ELSE LET FACTOR == BITS_TY \div LimbBits
               n_copy == Min(x.len, FACTOR)
               sign_limb == repr_signed(x.limbs[x.len])
               fill == IF sign_limb < 0 THEN Pow2(BITS_TY) - 1 ELSE 0
               low == LimbsPattern(x.limbs, n_copy)
               keep == Pow2(LimbBits * n_copy)
           IN  OfPattern(low + keep * (fill \div keep), t)

\* Option<T>
None == <<>>
Some(v) == <<v>>

\* isize::to_$ty of num_traits: Some when the value is in range.
checked_to(v, t) == IF v \in ValuesOf(t) THEN Some(v) ELSE None

\* macro to_prim
to_prim(x, t) == IF x.len = 1 THEN checked_to(repr_signed(x.limbs[1]), t) ELSE None

\* macro to_int
to_int(x, t) ==
  LET LEN == BitsOf(t) \div LimbBits
  IN  IF x.len = 1 THEN checked_to(repr_signed(x.limbs[1]), t)
      ELSE IF x.len <= LEN THEN Some(prim_from(x, t))
      ELSE None

\* macro to_uint
to_uint(x, t) ==
  LET LEN == (BitsOf(t) \div LimbBits) + 1
      LEN_M1 == LEN - 1
  IN  IF x.len = 1 THEN checked_to(repr_signed(x.limbs[1]), t)
      ELSE IF x.len <= LEN_M1 THEN Some(prim_from(x, t))
      ELSE IF x.len = LEN /\ x.limbs[LEN_M1 + 1] = 0 THEN Some(prim_from(x, t))
      ELSE None

\* impl ToPrimitive for ApInt (target_pointer_width = "64").
ToPrimitive(x, t) ==
  CASE t \in {"i32", "i64", "isize", "u32", "usize"} -> to_prim(x, t)
    [] t = "i128" -> to_int(x, t)
    [] t \in {"u64", "u128"} -> to_uint(x, t)

\* Ordering
OrdOf(a, b) == IF a < b THEN "Less" ELSE IF a > b THEN "Greater" ELSE "Equal"
Reverse(o) == IF o = "Less" THEN "Greater" ELSE IF o = "Greater" THEN "Less" ELSE o

\* The limb loop of cmp: from limb i (1-based) down to the first.
RECURSIVE CmpLimbs(_, _, _)
CmpLimbs(l, r, i) ==
  IF i = 0 THEN "Equal"
  ELSE IF l[i] # r[i] THEN OrdOf(l[i], r[i])
  ELSE CmpLimbs(l, r, i - 1)

\* cmp with the limb scan of two negative values of one limb count reversed.
ApInt_cmp_reversed(x, y) ==
  LET SHIFT == LimbBits - 1
      l_bit == x.limbs[x.len] \div Pow2(SHIFT)
      r_bit == y.limbs[y.len] \div Pow2(SHIFT)
  IN  IF l_bit = 1 /\ r_bit = 1 /\ x.len = y.len
      THEN Reverse(CmpLimbs(x.limbs, y.limbs, x.len))
      ELSE IF x.len = 1 /\ y.len = 1
      THEN OrdOf(repr_signed(x.limbs[1]), repr_signed(y.limbs[1]))
      ELSE IF x.len > 1 /\ y.len > 1
      THEN IF l_bit = 0 /\ r_bit = 1 THEN "Greater"
           ELSE IF l_bit = 1 /\ r_bit = 0 THEN "Less"
           ELSE IF x.len # y.len
           THEN (IF l_bit = 0 THEN OrdOf(x.len, y.len) ELSE Reverse(OrdOf(x.len, y.len)))
           ELSE CmpLimbs(x.limbs, y.limbs, x.len)
      ELSE IF x.len = 1
      THEN (IF r_bit = 1 THEN "Greater" ELSE "Less")
      ELSE (IF l_bit = 1 THEN "Less" ELSE "Greater")

\* impl Ord for ApInt
ApInt_cmp(x, y) ==
  LET SHIFT == LimbBits - 1
      l_bit == x.limbs[x.len] \div Pow2(SHIFT)
      r_bit == y.limbs[y.len] \div Pow2(SHIFT)
  IN  IF x.len = 1 /\ y.len = 1
      THEN OrdOf(repr_signed(x.limbs[1]), repr_signed(y.limbs[1]))
      ELSE IF x.len > 1 /\ y.len > 1
      THEN IF l_bit = 0 /\ r_bit = 1 THEN "Greater"
           ELSE IF l_bit = 1 /\ r_bit = 0 THEN "Less"
           ELSE IF x.len # y.len
           THEN (IF l_bit = 0 THEN OrdOf(x.len, y.len) ELSE Reverse(OrdOf(x.len, y.len)))
           ELSE CmpLimbs(x.limbs, y.limbs, x.len)
      ELSE IF x.len = 1
      THEN (IF r_bit = 1 THEN "Greater" ELSE "Less")
      ELSE (IF l_bit = 1 THEN "Less" ELSE "Greater")

\* Limb::not
Limb_not(limb) == WordMax - limb

\* not that complements the least significant limb only.
ApInt_not_low(x) == [x EXCEPT !.limbs[1] = Limb_not(x.limbs[1])]

\* impl Not for ApInt
ApInt_not(x) == [x EXCEPT !.limbs = [i \in 1 .. x.len |-> Limb_not(x.limbs[i])]]

\* `!v` of the primitive type t
prim_not(v, t) == OfPattern(Pow2(BitsOf(t)) - 1 - Pattern(v, BitsOf(t)), t)

\* The number an ApInt denotes: its limbs read as two's complement.
ApValue(x) ==
  LET p == LimbsPattern(x.limbs, x.len)
      top == Pow2(LimbBits * x.len)
  IN  IF 2 * p >= top THEN p - top ELSE p

(***************************************************************************)
(* The lifecycle model.  A slot holds an Int, an ApInt or nothing.  `repr` *)
(* is the one machine word of the union (Repr / ApIntData): the inline     *)
(* limb or the heap pointer, whichever `len` says.  A heap address maps to *)
(* the limbs of the block allocated there, <<>> when none is.              *)
(***************************************************************************)
VARIABLES
  objs,    \* slot -> [k, len, repr]
  heap,    \* address -> limbs of the live block there, or <<>>
  fault,   \* "none", or the undefined behaviour that ended the run
  last,    \* the operation performed last
  conv     \* a conversion under way: its input, the ApInt built and the result

Slots == 1 .. NSlots
Addrs == 1 .. NAddrs

Dead == [k |-> "dead", len |-> 0, repr |-> 0]

\* The mutable program state handed through the operations.
St == [objs |-> objs, heap |-> heap, fault |-> fault, calls |-> <<>>]

\* A call of the allocator in st: the function, the pointer and sizes (in
\* limbs) passed, the pointer returned, and the size the block at the pointer
\* passed has at the call (0 when there is none).
Called(st, fn, ptr, old, new, ret) ==
  [st EXCEPT !.calls = Append(@, [fn |-> fn, ptr |-> ptr, old |-> old, new |-> new, ret |-> ret,
                                  had |-> IF ptr \in DOMAIN st.heap THEN Len(st.heap[ptr]) ELSE 0])]

Abort(st, kind) == IF st.fault # "none" THEN st ELSE [st EXCEPT !.fault = kind]

Live(h, p) == p \in Addrs /\ h[p] # <<>>
FreeAddrs(h) == {a \in Addrs : h[a] = <<>>}
\* p points to a live block of at least n limbs.
Readable(h, p, n) == p \in Addrs /\ Len(h[p]) >= n /\ n >= 1

(***************************************************************************)
(* src/alloc.rs, src/mem.rs.  The address the system allocator returns and *)
(* the content of uninitialised memory are inputs (a, junk).               *)
(***************************************************************************)
\* alloc::allocate: n uninitialised limbs at a.
allocate(st, a, n, junk) ==
  IF st.fault # "none" THEN st
  ELSE [Called(st, "allocate", 0, 0, n, a) EXCEPT !.heap[a] = [i \in 1 .. n |-> junk]]

\* alloc::allocate_zeroed, mem::alloc_limbs
allocate_zeroed(st, a, n) ==
  IF st.fault # "none" THEN st
  ELSE [Called(st, "allocate", 0, 0, n, a) EXCEPT !.heap[a] = Zeroed(n)]

\* alloc::deallocate, mem::dealloc_limbs: ptr must be a live block of that layout.
deallocate(st, ptr, n) ==
  IF st.fault # "none" THEN st
  ELSE IF ~(Live(st.heap, ptr) /\ Len(st.heap[ptr]) = n)
  THEN Abort(Called(st, "deallocate", ptr, n, 0, 0), "deallocate")
  ELSE [Called(st, "deallocate", ptr, n, 0, 0) EXCEPT !.heap[ptr] = <<>>]

\* alloc::reallocate, mem::realloc_limbs: the block moves to a (a = ptr: in place).
reallocate(st, ptr, old, new, a, junk) ==
  IF st.fault # "none" THEN st
  ELSE IF ~(Live(st.heap, ptr) /\ Len(st.heap[ptr]) = old)
  THEN Abort(Called(st, "reallocate", ptr, old, new, a), "reallocate")
  ELSE LET data == [i \in 1 .. new |-> IF i <= old THEN st.heap[ptr][i] ELSE junk]
       IN  [Called(st, "reallocate", ptr, old, new, a)
              EXCEPT !.heap = [[st.heap EXCEPT ![ptr] = <<>>] EXCEPT ![a] = data]]

\* ptr::copy_nonoverlapping(src, dst, n)
copy_nonoverlapping(st, src, dst, n) ==
  IF st.fault # "none" THEN st
  ELSE IF ~Readable(st.heap, src, n) \/ ~Readable(st.heap, dst, n) THEN Abort(st, "access")
  ELSE IF src = dst THEN Abort(st, "overlap")
  ELSE [st EXCEPT !.heap[dst] =
          [i \in 1 .. Len(st.heap[dst]) |-> IF i <= n THEN st.heap[src][i] ELSE st.heap[dst][i]]]

(***************************************************************************)
(* src/int/repr.rs, src/int/mod.rs                                         *)
(***************************************************************************)
\* ReprLen::len
ReprLen_len(len) == unsigned_abs(len)

\* ReprLen::is_inline
is_inline(len) == len \in {-1, 0, 1}

\* Bits in a byte, scaled from 8.
ByteBits == 3

\* Bits of ReprLen(i32), scaled from 32.
LenBits == 2 * ByteBits

\* i32::MIN ..= i32::MAX
LenRange == (-Pow2(LenBits - 1)) .. (Pow2(LenBits - 1) - 1)

i32_MIN == -Pow2(LenBits - 1)

\* sign with every non-zero length taken for a positive one.
ReprLen_sign_unsigned(len) == IF len = 0 THEN "Zero" ELSE "Positive"

\* ReprLen::sign
ReprLen_sign(len) == IF len > 0 THEN "Positive" ELSE IF len = 0 THEN "Zero" ELSE "Negative"

\* i32::abs overflows for i32::MIN: a panic where overflow checks are compiled
\* in, the wrapped result i32::MIN where they are not.
abs_overflows(len) == len = i32_MIN

\* ReprLen::abs, the wrapped value on overflow.
ReprLen_abs(len) == IF abs_overflows(len) THEN i32_MIN ELSE unsigned_abs(len)

\* Int::from_limb
from_limb(limb) == [k |-> "int", len |-> IF limb = 0 THEN 0 ELSE 1, repr |-> limb]

\* Int::from_usize
from_usize(n) == from_limb(n)

\* from_isize with zero taken for a positive number.
from_isize_nonneg(n) ==
  [k |-> "int", len |-> IF n >= 0 THEN 1 ELSE -1, repr |-> unsigned_abs(n)]

\* Int::from_isize
from_isize(n) ==
  [k |-> "int",
   len |-> IF n > 0 THEN 1 ELSE IF n = 0 THEN 0 ELSE -1,
   repr |-> unsigned_abs(n)]

\* Int::sign
Int_sign(x) == ReprLen_sign(x.len)

\* Int::signum
Int_signum(x) ==
  CASE Int_sign(x) = "Negative" -> from_isize(-1)
    [] Int_sign(x) = "Zero" -> from_isize(0)
    [] Int_sign(x) = "Positive" -> from_isize(1)

\* Int::abs
Int_abs(x) == [x EXCEPT !.len = ReprLen_abs(x.len)]

\* Int::current_allocation: None, or the pointer and the layout (in limbs).
current_allocation(x) ==
  IF is_inline(x.len) THEN None ELSE Some([ptr |-> x.repr, size |-> ReprLen_len(x.len)])

\* Int::allocate(len) into slot d; the caller guarantees len < -1 or len > 1.
Int_allocate(st, d, len, a) ==
  LET st1 == allocate_zeroed(st, a, ReprLen_len(len))
  IN  [st1 EXCEPT !.objs[d] = [k |-> "int", len |-> len, repr |-> a]]

\* clone as a bitwise copy of the Int: the pointer is copied, not the block.
Int_clone_shallow(st, s, d, a, junk) ==
  [st EXCEPT !.objs[d] = [k |-> "int", len |-> st.objs[s].len, repr |-> st.objs[s].repr]]

\* clone copying one limb too few into the fresh block.
Int_clone_short(st, s, d, a, junk) ==
  LET self == st.objs[s]
      ca == current_allocation(self)
  IN  IF ca = None
      THEN [st EXCEPT !.objs[d] = [k |-> "int", len |-> self.len, repr |-> self.repr]]
      ELSE LET src == ca[1].ptr
               size == ca[1].size
               st1 == IF Readable(st.heap, src, size) THEN allocate(st, a, size, junk)
                      ELSE Abort(st, "access")
               st2 == copy_nonoverlapping(st1, src, a, size - 1)
           IN  IF st2.fault # "none" THEN st2
               ELSE [st2 EXCEPT !.objs[d] = [k |-> "int", len |-> self.len, repr |-> a]]

\* impl Clone for Int: clone of slot s into slot d.
Int_clone(st, s, d, a, junk) ==
  LET self == st.objs[s]
      ca == current_allocation(self)
  IN  IF ca = None
      THEN [st EXCEPT !.objs[d] = [k |-> "int", len |-> self.len, repr |-> self.repr]]
      ELSE LET src == ca[1].ptr
               size == ca[1].size
               st1 == IF Readable(st.heap, src, size) THEN allocate(st, a, size, junk)
                      ELSE Abort(st, "access")
               st2 == copy_nonoverlapping(st1, src, a, size)
           IN  IF st2.fault # "none" THEN st2
               ELSE [st2 EXCEPT !.objs[d] = [k |-> "int", len |-> self.len, repr |-> a]]

\* drop that forgets the block.
Int_drop_forget(st, s) == [st EXCEPT !.objs[s] = Dead]

\* impl Drop for Int
Int_drop(st, s) ==
  LET ca == current_allocation(st.objs[s])
      st1 == IF ca = None THEN st ELSE deallocate(st, ca[1].ptr, ca[1].size)
  IN  IF st1.fault # "none" THEN st1 ELSE [st1 EXCEPT !.objs[s] = Dead]

\* impl Clone for Int: d.clone_from(s).
Int_clone_from(st, d, s, a, junk) ==
  LET self == st.objs[d]
      source == st.objs[s]
      sa == current_allocation(source)
  IN  IF sa = None
      THEN \* *self = source.clone(): the old value of self is dropped.
           LET st1 == Int_drop(st, d)
           IN  IF st1.fault # "none" THEN st1
               ELSE [st1 EXCEPT !.objs[d] = [k |-> "int", len |-> source.len, repr |-> source.repr]]
      ELSE LET src == sa[1].ptr
               new_size == sa[1].size
               da == current_allocation(self)
               st1 == IF da = None THEN allocate(st, a, new_size, junk)
                      ELSE IF da[1].size # new_size
                      THEN reallocate(st, da[1].ptr, da[1].size, new_size, a, junk)
                      ELSE st
               dst == IF da = None THEN a
                      ELSE IF da[1].size # new_size THEN a
                      ELSE da[1].ptr
               st2 == copy_nonoverlapping(st1, src, dst, new_size)
           IN  IF st2.fault # "none" THEN st2
               ELSE [st2 EXCEPT !.objs[d].len = source.len]

\* The limbs of x as read through its own storage (<<>> when the storage
\* cannot be read).
LimbsOf(h, x) ==
  IF x.k = "int" /\ is_inline(x.len) THEN <<x.repr>>
  ELSE IF x.k = "ap" /\ x.len = 1 THEN <<x.repr>>
  ELSE IF Readable(h, x.repr, ReprLen_len(x.len)) THEN SubSeq(h[x.repr], 1, ReprLen_len(x.len))
  ELSE <<>>

\* eq that compares the limb counts without their sign.
Int_eq_unsigned(h, x, y) ==
  IF ReprLen_len(x.len) # ReprLen_len(y.len) THEN FALSE
  ELSE IF is_inline(x.len) THEN x.repr = y.repr
  ELSE LimbsOf(h, x) = LimbsOf(h, y)

\* impl PartialEq for Int, with ll::eq (memcmp over len limbs).
Int_eq(h, x, y) ==
  IF x.len # y.len THEN FALSE
  ELSE IF is_inline(x.len) THEN x.repr = y.repr
  ELSE LimbsOf(h, x) = LimbsOf(h, y)

\* isize::signum
signum(m) == IF m > 0 THEN 1 ELSE IF m = 0 THEN 0 ELSE -1

\* impl PartialEq<usize> for Int
Int_eq_usize(x, other) ==
  IF x.len \notin {0, 1} THEN FALSE ELSE x.repr = other

\* eq against an isize that compares the magnitudes of inline values only.
Int_eq_isize_abs(x, other) ==
  IF ~is_inline(x.len) THEN FALSE ELSE x.repr = unsigned_abs(other)

\* impl PartialEq<isize> for Int
Int_eq_isize(x, other) ==
  IF x.len # signum(other) THEN FALSE ELSE x.repr = unsigned_abs(other)

\* A limb written through as_mut_ptr().offset(i).deref_mut() of a heap-backed value.
write_limb(st, s, i, v) ==
  LET x == st.objs[s]
  IN  IF ~Readable(st.heap, x.repr, i + 1) THEN Abort(st, "access")
      ELSE [st EXCEPT !.heap[x.repr][i + 1] = v]

(***************************************************************************)
(* src/apint/mod.rs (release build: the Bounds of Limbs are erased).       *)
(***************************************************************************)
\* ApInt::from_limb
ApInt_from_limb(value) == [k |-> "ap", len |-> 1, repr |-> value]

\* ApInt::with_capacity into slot d
ApInt_with_capacity(st, d, capacity, a) ==
  LET st1 == allocate_zeroed(st, a, capacity)
  IN  [st1 EXCEPT !.objs[d] = [k |-> "ap", len |-> capacity, repr |-> a]]

\* impl Drop for ApInt
ApInt_drop(st, s) ==
  LET self == st.objs[s]
      st1 == IF self.len = 1 THEN st ELSE deallocate(st, self.repr, self.len)
  IN  IF st1.fault # "none" THEN st1 ELSE [st1 EXCEPT !.objs[s] = Dead]

\* impl Clone for ApInt: clone of slot s into slot d.
ApInt_clone(st, s, d, a) ==
  LET self == st.objs[s]
  IN  IF self.len = 1
      THEN [st EXCEPT !.objs[d] = ApInt_from_limb(self.repr)]
      ELSE LET st1 == IF Readable(st.heap, self.repr, self.len)
                      THEN ApInt_with_capacity(st, d, self.len, a)
                      ELSE Abort(st, "access")
           IN  copy_nonoverlapping(st1, self.repr, a, self.len)

\* impl Clone for ApInt: d.clone_from(s).
ApInt_clone_from(st, d, s, a, junk) ==
  LET self == st.objs[d]
      source == st.objs[s]
  IN  IF self.len = 1 /\ source.len = 1
      THEN [st EXCEPT !.objs[d].repr = source.repr]
      ELSE IF source.len = 1
      THEN LET st1 == deallocate(st, self.repr, self.len)
           IN  IF st1.fault # "none" THEN st1
               ELSE [st1 EXCEPT !.objs[d] = [k |-> "ap", len |-> 1, repr |-> source.repr]]
      ELSE IF self.len = 1
      THEN LET st1 == allocate_zeroed(st, a, source.len)
               st2 == [st1 EXCEPT !.objs[d] = [k |-> "ap", len |-> source.len, repr |-> a]]
           IN  copy_nonoverlapping(st2, source.repr, a, source.len)
      ELSE LET st1 == IF self.len # source.len
                      THEN reallocate(st, self.repr, self.len, source.len, a, junk)
                      ELSE st
               st2 == IF self.len # source.len /\ st1.fault = "none"
                      THEN [st1 EXCEPT !.objs[d].repr = a]
                      ELSE st1
           IN  copy_nonoverlapping(st2, source.repr, st2.objs[d].repr, source.len)

\* ApInt::from(val) into slot d: inline, or with_capacity and the limb writes.
ApInt_from_into(st, d, val, t, a) ==
  LET x == ApInt_from(val, t)
  IN  IF x.len = 1 THEN [st EXCEPT !.objs[d] = ApInt_from_limb(x.limbs[1])]
      ELSE LET st1 == ApInt_with_capacity(st, d, x.len, a)
           IN  [st1 EXCEPT !.heap[a] = x.limbs]

\* The ApInt value held in a slot.
ApOf(h, x) == [len |-> x.len, limbs |-> LimbsOf(h, x)]

\* impl PartialEq for ApInt
ApInt_eq(x, y) ==
  IF x.len = 1 /\ y.len = 1 THEN x.limbs[1] = y.limbs[1]
  ELSE IF x.len > 1 /\ y.len > 1 /\ x.len = y.len THEN CmpLimbs(x.limbs, y.limbs, x.len) = "Equal"
  ELSE FALSE

(***************************************************************************)
(* The lifecycle specification.                                            *)
(***************************************************************************)
\* isize::MIN
IsizeMin == -Pow2(LimbBits - 1)

UsizeInputs == {0, 1, WordMax}
IsizeInputs == {IsizeMin, -1, 0, 1}
AllocLens == {l \in (-MaxLimbs) .. MaxLimbs : ~is_inline(l)}
WriteVals == {0, WordMax}
Junk == {0, WordMax}
ApInputs == {<<3, "u32">>, <<WordMax, "u64">>, <<WordMod, "u128">>,
             <<MaxOf("u128"), "u128">>, <<MinOf("i128"), "i128">>}

NoOp == [op |-> "init", dst |-> 0, src |-> 0, pre |-> None, calls |-> <<>>]

Snapshot(s) == [len |-> objs[s].len, limbs |-> LimbsOf(heap, objs[s])]

\* The operations whose record keeps the value their source had before.
Cloning == {"clone", "clone_from", "ap_clone", "ap_clone_from"}

\* The state after an operation, and the record of the operation.
Apply(st, op, d, s) ==
  /\ objs' = st.objs
  /\ heap' = st.heap
  /\ fault' = st.fault
  /\ last' = [op |-> op, dst |-> d, src |-> s,
              pre |-> IF op \in Cloning THEN Some(Snapshot(s)) ELSE None,
              calls |-> st.calls]
  /\ UNCHANGED conv

IsInt(s) == objs[s].k = "int"
IsAp(s) == objs[s].k = "ap"
IsDead(s) == objs[s].k = "dead"

NoOut == [op |-> "none"]
ConvIdle == [pc |-> "idle", ty |-> "usize", val |-> 0, int |-> StackVal(0), out |-> NoOut]

LifeInit ==
  /\ objs = [s \in Slots |-> Dead]
  /\ heap = [a \in Addrs |-> <<>>]
  /\ fault = "none"
  /\ last = NoOp

Init == LifeInit /\ conv = ConvIdle

IntFromUsize(d, n) ==
  /\ fault = "none" /\ IsDead(d)
  /\ Apply([St EXCEPT !.objs[d] = from_usize(n)], "from_usize", d, 0)

IntFromIsize(d, n) ==
  /\ fault = "none" /\ IsDead(d)
  /\ Apply([St EXCEPT !.objs[d] = from_isize(n)], "from_isize", d, 0)

IntSignum(s, d) ==
  /\ fault = "none" /\ IsInt(s) /\ IsDead(d)
  /\ Apply([St EXCEPT !.objs[d] = Int_signum(objs[s])], "signum", d, s)

IntAbs(s) ==
  /\ fault = "none" /\ IsInt(s)
  /\ Apply([St EXCEPT !.objs[s] = Int_abs(objs[s])], "abs", s, s)

IntAllocate(d, len) ==
  /\ fault = "none" /\ IsDead(d)
  /\ \E a \in FreeAddrs(heap) : Apply(Int_allocate(St, d, len, a), "allocate", d, 0)

IntWrite(s, i, v) ==
  /\ fault = "none" /\ IsInt(s) /\ ~is_inline(objs[s].len)
  /\ i < ReprLen_len(objs[s].len)
  /\ Apply(write_limb(St, s, i, v), "write", s, 0)

IntClone(s, d) ==
  /\ fault = "none" /\ IsInt(s) /\ IsDead(d)
  /\ \E a \in (IF is_inline(objs[s].len) THEN {0} ELSE FreeAddrs(heap)), junk \in Junk :
       Apply(Int_clone(St, s, d, a, junk), "clone", d, s)

\* The addresses reallocate or allocate may return to d.clone_from(s).
CloneFromAddrs(dheap, sheap, dptr, dlen, slen) ==
  IF ~sheap THEN {0}
  ELSE IF ~dheap THEN FreeAddrs(heap)
  ELSE IF dlen # slen THEN {dptr} \cup FreeAddrs(heap)
  ELSE {0}

IntCloneFrom(d, s) ==
  /\ fault = "none" /\ IsInt(d) /\ IsInt(s) /\ d # s
  /\ \E a \in CloneFromAddrs(~is_inline(objs[d].len), ~is_inline(objs[s].len), objs[d].repr,
                             ReprLen_len(objs[d].len), ReprLen_len(objs[s].len)),
        junk \in Junk :
       Apply(Int_clone_from(St, d, s, a, junk), "clone_from", d, s)

IntDrop(s) ==
  /\ fault = "none" /\ IsInt(s)
  /\ Apply(Int_drop(St, s), "drop", s, 0)

\* ll::eq reads len limbs through both pointers.
EqReadable(x, y) ==
  \/ x.len # y.len
  \/ is_inline(x.len)
  \/ /\ Readable(heap, x.repr, ReprLen_len(x.len))
     /\ Readable(heap, y.repr, ReprLen_len(y.len))

\* l == r on two Ints: the result and both operands as they were are recorded.
IntEq(l, r) ==
  /\ fault = "none" /\ IsInt(l) /\ IsInt(r)
  /\ fault' = IF EqReadable(objs[l], objs[r]) THEN "none" ELSE "access"
  /\ last' = [op |-> "eq", dst |-> l, src |-> r,
              pre |-> Some([res |-> Int_eq(heap, objs[l], objs[r]),
                            l |-> Snapshot(l), r |-> Snapshot(r)]),
              calls |-> <<>>]
  /\ UNCHANGED <<objs, heap, conv>>

\* The operations that only read an Int through a shared reference and return
\* a value: sign, == usize, == isize, current_allocation, as_ptr.
ReadOps == {"sign", "eq_usize", "eq_isize", "current_allocation", "as_ptr"}

IntRead(s, op) ==
  /\ fault = "none" /\ IsInt(s)
  /\ Apply(St, op, 0, s)

ApFrom(d, val, t) ==
  /\ fault = "none" /\ IsDead(d)
  /\ \E a \in (IF ApInt_from(val, t).len = 1 THEN {0} ELSE FreeAddrs(heap)) :
       Apply(ApInt_from_into(St, d, val, t, a), "ap_from", d, 0)

ApClone(s, d) ==
  /\ fault = "none" /\ IsAp(s) /\ IsDead(d)
  /\ \E a \in (IF objs[s].len = 1 THEN {0} ELSE FreeAddrs(heap)) :
       Apply(ApInt_clone(St, s, d, a), "ap_clone", d, s)

ApCloneFrom(d, s) ==
  /\ fault = "none" /\ IsAp(d) /\ IsAp(s) /\ d # s
  /\ \E a \in CloneFromAddrs(objs[d].len # 1, objs[s].len # 1, objs[d].repr,
                             objs[d].len, objs[s].len),
        junk \in Junk :
       Apply(ApInt_clone_from(St, d, s, a, junk), "ap_clone_from", d, s)

ApDrop(s) ==
  /\ fault = "none" /\ IsAp(s)
  /\ Apply(ApInt_drop(St, s), "ap_drop", s, 0)

vars == <<objs, heap, fault, last, conv>>

Next ==
  \/ \E d \in Slots, n \in UsizeInputs : IntFromUsize(d, n)
  \/ \E d \in Slots, n \in IsizeInputs : IntFromIsize(d, n)
  \/ \E s \in Slots, d \in Slots : IntSignum(s, d)
  \/ \E s \in Slots : IntAbs(s)
  \/ \E d \in Slots, len \in AllocLens : IntAllocate(d, len)
  \/ \E s \in Slots, i \in 0 .. (MaxLimbs - 1), v \in WriteVals : IntWrite(s, i, v)
  \/ \E s \in Slots, d \in Slots : IntClone(s, d)
  \/ \E d \in Slots, s \in Slots : IntCloneFrom(d, s)
  \/ \E s \in Slots : IntDrop(s)
  \/ \E l \in Slots, r \in Slots : IntEq(l, r)
  \/ \E s \in Slots, op \in ReadOps : IntRead(s, op)
  \/ \E d \in Slots, x \in ApInputs : ApFrom(d, x[1], x[2])
  \/ \E s \in Slots, d \in Slots : ApClone(s, d)
  \/ \E d \in Slots, s \in Slots : ApCloneFrom(d, s)
  \/ \E s \in Slots : ApDrop(s)

Spec == Init /\ [][Next]_vars

(***************************************************************************)
(* The conversion specification: a primitive value is converted to an      *)
(* ApInt, which is then extracted into a primitive type or compared with   *)
(* the ApInt of a second value of the same type.                           *)
(***************************************************************************)
ConvInit ==
  /\ LifeInit
  /\ \E t \in Prims : \E v \in ValuesOf(t) :
       conv = [pc |-> "start", ty |-> t, val |-> v, int |-> StackVal(0), out |-> NoOut]

\* ApInt::from(val)
Build ==
  /\ conv.pc = "start"
  /\ conv' = [conv EXCEPT !.pc = "built", !.int = ApInt_from(conv.val, conv.ty)]
  /\ UNCHANGED <<objs, heap, fault, last>>

\* <$to>::from(&int) and int.to_$to()
Extract(to) ==
  /\ conv.pc = "built"
  /\ conv' = [conv EXCEPT !.pc = "done",
                          !.out = [op |-> "extract", to |-> to,
                                   cast |-> prim_from(conv.int, to),
                                   try |-> ToPrimitive(conv.int, to)]]
  /\ UNCHANGED <<objs, heap, fault, last>>

\* ApInt::from(val).cmp(&ApInt::from(b))
Compare(b) ==
  /\ conv.pc = "built"
  /\ conv' = [conv EXCEPT !.pc = "done",
                          !.out = [op |-> "cmp", b |-> b,
                                   ord |-> ApInt_cmp(conv.int, ApInt_from(b, conv.ty))]]
  /\ UNCHANGED <<objs, heap, fault, last>>

\* !ApInt::from(val), and ApInt::from(!val) to compare it with
Not ==
  /\ conv.pc = "built"
  /\ conv' = [conv EXCEPT !.pc = "done",
                          !.out = [op |-> "not", res |-> ApInt_not(conv.int),
                                   of_not |-> ApInt_from(prim_not(conv.val, conv.ty), conv.ty)]]
  /\ UNCHANGED <<objs, heap, fault, last>>

\* ApInt::from(val as $other), the same value through a second primitive type
Rebuild(other) ==
  /\ conv.pc = "built" /\ conv.val \in ValuesOf(other)
  /\ conv' = [conv EXCEPT !.pc = "done",
                          !.out = [op |-> "rebuild", other |-> other,
                                   int |-> ApInt_from(conv.val, other)]]
  /\ UNCHANGED <<objs, heap, fault, last>>

\* Int::from_isize(val) beside ApInt::from(val), and its == against val
FromIsize ==
  /\ conv.pc = "built" /\ conv.ty = "isize"
  /\ conv' = [conv EXCEPT !.pc = "done",
                          !.out = [op |-> "from_isize", x |-> from_isize(conv.val),
                                   eq |-> Int_eq_isize(from_isize(conv.val), conv.val)]]
  /\ UNCHANGED <<objs, heap, fault, last>>

ConvNext ==
  \/ Build
  \/ Not
  \/ FromIsize
  \/ \E other \in Prims : Rebuild(other)
  \/ \E to \in Prims : Extract(to)
  \/ \E b \in ValuesOf(conv.ty) : Compare(b)

SpecConv == ConvInit /\ [][ConvNext]_vars

(***************************************************************************)
(* The comparison specification: cmp applied to two ApInts of any limb     *)
(* count up to MaxLimbs, with limbs drawn from LimbSamples.                 *)
(***************************************************************************)
\* Limb values at the edges of the signed and the unsigned range.
LimbSamples == {0, 1, Pow2(LimbBits - 1) - 1, Pow2(LimbBits - 1), WordMax}

ApInts == UNION {{[len |-> n, limbs |-> l] : l \in [1 .. n -> LimbSamples]} : n \in 1 .. MaxLimbs}

CmpInit ==
  /\ LifeInit
  /\ \E x \in ApInts, y \in ApInts :
       conv = [pc |-> "cmp_start", l |-> x, r |-> y, out |-> NoOut]

\* l.cmp(&r)
Cmp ==
  /\ conv.pc = "cmp_start"
  /\ conv' = [conv EXCEPT !.pc = "cmp_done",
                          !.out = [op |-> "cmp", ord |-> ApInt_cmp(conv.l, conv.r)]]
  /\ UNCHANGED <<objs, heap, fault, last>>

CmpNext == Cmp

SpecCmp == CmpInit /\ [][CmpNext]_vars

(***************************************************************************)
(* The allocation specification: Int::allocate and mem::alloc_limbs on     *)
(* targets of three pointer widths.  Here a byte has ByteBits bits, the    *)
(* len field (i32) two bytes and usize one, two or four bytes (scaled from *)
(* 16, 32 and 64 bits against a 32-bit len).                               *)
(***************************************************************************)
\* mem::size_of::<usize>() * 8 on the 16-, 32- and 64-bit targets.
PointerWidths == {ByteBits, 2 * ByteBits, 4 * ByteBits}

\* Limb::SIZE = size_of::<usize>(), in bytes.
LimbSize(pw) == pw \div ByteBits

usize_MAX(pw) == Pow2(pw) - 1
isize_MAX(pw) == Pow2(pw - 1) - 1

\* `x as usize`
as_usize(x, pw) == x % Pow2(pw)

\* ReprLen::len on a target of pointer width pw.
ReprLen_len_usize(len, pw) == as_usize(unsigned_abs(len), pw)

\* Layout::array::<Limb>(n): Ok(size in bytes), or Err.  Whether a size above
\* isize::MAX is refused here depends on the library version (`strict`).
Layout_array(n, pw, strict) ==
  LET size == n * LimbSize(pw)
  IN  IF size > usize_MAX(pw) \/ (strict /\ size > isize_MAX(pw)) THEN None ELSE Some(size)

\* int::repr::alloc_guard: Ok (TRUE) or Err(CapacityOverflow).
alloc_guard(alloc_size, pw) ==
  ~(pw < 4 * ByteBits /\ alloc_size > isize_MAX(pw))

\* mem::alloc_guard: `size_of::<usize>() < 64` compares the size in bytes.
mem_alloc_guard(alloc_size, pw) ==
  ~(LimbSize(pw) < 64 /\ alloc_size > isize_MAX(pw))

\* The outcome of an allocation of n limbs once the layout is known.
Allocated(layout, guard, pw) ==
  IF layout = None \/ ~guard THEN [res |-> "capacity_overflow", limbs |-> 0]
  ELSE IF layout[1] = 0 THEN [res |-> "undefined", limbs |-> 0]
  ELSE [res |-> "returned", limbs |-> layout[1] \div LimbSize(pw)]

\* Int::allocate(len), as far as the block it obtains.
allocate_block(len, pw, strict) ==
  LET layout == Layout_array(ReprLen_len_usize(len, pw), pw, strict)
  IN  Allocated(layout, layout = None \/ alloc_guard(layout[1], pw), pw)

\* mem::alloc_limbs(capacity), as far as the block it obtains.
alloc_limbs_block(capacity, pw, strict) ==
  LET layout == Layout_array(capacity, pw, strict)
  IN  Allocated(layout, layout = None \/ mem_alloc_guard(layout[1], pw), pw)

AllocInit ==
  /\ LifeInit
  /\ \E pw \in PointerWidths, strict \in BOOLEAN :
       conv = [pc |-> "alloc_start", pw |-> pw, strict |-> strict, out |-> NoOut]

\* unsafe { Int::allocate(len) } with len < -1 or len > 1
Allocate(len) ==
  /\ conv.pc = "alloc_start" /\ ~is_inline(len)
  /\ conv' = [conv EXCEPT !.pc = "alloc_done",
                          !.out = [op |-> "allocate", n |-> unsigned_abs(len),
                                   block |-> allocate_block(len, conv.pw, conv.strict)]]
  /\ UNCHANGED <<objs, heap, fault, last>>

\* unsafe { mem::alloc_limbs(capacity) }
AllocLimbs(capacity) ==
  /\ conv.pc = "alloc_start" /\ capacity <= usize_MAX(conv.pw)
  /\ conv' = [conv EXCEPT !.pc = "alloc_done",
                          !.out = [op |-> "alloc_limbs", n |-> capacity,
                                   block |-> alloc_limbs_block(capacity, conv.pw, conv.strict)]]
  /\ UNCHANGED <<objs, heap, fault, last>>

AllocNext ==
  \/ \E len \in LenRange : Allocate(len)
  \/ \E capacity \in 2 .. Pow2(LenBits) : AllocLimbs(capacity)

SpecAlloc == AllocInit /\ [][AllocNext]_vars

(***************************************************************************)
(* The introspection specification: sign, abs and equality against raw     *)
(* machine integers, on every Int the constructors return.  The len field  *)
(* ranges over the whole of its width (LenRange).                          *)
(***************************************************************************)
IsizeRange == IsizeMin .. (-IsizeMin - 1)

\* The constructor calls: from_usize(n), from_isize(m), allocate(len) at block a.
Constructions ==
  ({"from_usize"} \X Word \X {0}) \cup ({"from_isize"} \X IsizeRange \X {0})
    \cup ({"allocate"} \X {l \in LenRange : ~is_inline(l)} \X Addrs)

IntOf(c) ==
  CASE c[1] = "from_usize" -> from_usize(c[2])
    [] c[1] = "from_isize" -> from_isize(c[2])
    [] c[1] = "allocate" -> [k |-> "int", len |-> c[2], repr |-> c[3]]

IntInit ==
  /\ LifeInit
  /\ \E c \in Constructions, checks \in BOOLEAN :
       conv = [pc |-> "int_start", from |-> c, x |-> IntOf(c), checks |-> checks, out |-> NoOut]

\* x.sign()
Sign ==
  /\ conv.pc = "int_start"
  /\ conv' = [conv EXCEPT !.pc = "int_done", !.out = [op |-> "sign", sign |-> Int_sign(conv.x)]]
  /\ UNCHANGED <<objs, heap, fault, last>>

\* x.abs(); None is the overflow panic of a build with overflow checks.
Abs ==
  /\ conv.pc = "int_start"
  /\ conv' = [conv EXCEPT !.pc = "int_done",
                          !.out = [op |-> "abs",
                                   res |-> IF conv.checks /\ abs_overflows(conv.x.len) THEN None
                                           ELSE Some(Int_abs(conv.x))]]
  /\ UNCHANGED <<objs, heap, fault, last>>

\* x == n
EqUsize(n) ==
  /\ conv.pc = "int_start"
  /\ conv' = [conv EXCEPT !.pc = "int_done",
                          !.out = [op |-> "eq_usize", other |-> n, res |-> Int_eq_usize(conv.x, n)]]
  /\ UNCHANGED <<objs, heap, fault, last>>

\* x == m
EqIsize(m) ==
  /\ conv.pc = "int_start"
  /\ conv' = [conv EXCEPT !.pc = "int_done",
                          !.out = [op |-> "eq_isize", other |-> m, res |-> Int_eq_isize(conv.x, m)]]
  /\ UNCHANGED <<objs, heap, fault, last>>

IntNext ==
  \/ Sign
  \/ Abs
  \/ \E n \in Word : EqUsize(n)
  \/ \E m \in IsizeRange : EqIsize(m)

SpecInt == IntInit /\ [][IntNext]_vars

(***************************************************************************)
(* The accessor specification: the bounded limb accessors of a build with  *)
(* debug assertions (ll::limb_ptr LimbPtr / LimbMutPtr, limbs Limbs /      *)
(* LimbsMut), on a target of pointer width AccWidth.  `checks` says        *)
(* whether integer overflow checks are compiled in: the two are separate   *)
(* settings of a build profile.                                            *)
(***************************************************************************)
AccWidth == 2 * ByteBits
AccSize == LimbSize(AccWidth)
AccKinds == {"LimbPtr", "LimbMutPtr", "Limbs", "LimbsMut"}
AccIsize == (-Pow2(AccWidth - 1)) .. isize_MAX(AccWidth)

\* Addresses of blocks: just above zero, mid-range, and ending at the top.
PtrSamples ==
  {AccSize, Pow2(AccWidth - 1) - AccSize, Pow2(AccWidth) - (MaxLimbs + 1) * AccSize}

\* `x as isize` of a wrapped product
as_isize(x) ==
  LET u == x % Pow2(AccWidth) IN IF u > isize_MAX(AccWidth) THEN u - Pow2(AccWidth) ELSE u

checked_add(a, b) == IF a + b > usize_MAX(AccWidth) THEN None ELSE Some(a + b)
checked_sub(a, b) == IF a - b < 0 THEN None ELSE Some(a - b)

\* ll::limb_ptr Bounds::new and limbs Bounds::new (no overflow for these blocks).
Bounds_new(ptr, len) == [lo |-> ptr, hi |-> ptr + len * AccSize]

\* Bounds::validate_deref / Bounds::can_deref
validate_deref(b, ptr) == IF b.lo <= ptr /\ ptr < b.hi THEN "ok" ELSE "invalid_deref"

\* The checked part of Bounds::validate_offset, from the byte offset on.
validate_bytes(b, ptr, bytes) ==
  LET result == IF bytes > 0 THEN checked_add(ptr, unsigned_abs(bytes))
                ELSE checked_sub(ptr, unsigned_abs(bytes))
  IN  IF result = None THEN "offset_overflow"
      ELSE IF ~(b.lo <= result[1] /\ result[1] <= b.hi) THEN "invalid_offset"
      ELSE "ok"

\* Bounds::validate_offset: `offset * Limb::SIZE as isize` panics on overflow
\* where overflow checks are compiled in and wraps where they are not.
validate_offset(b, ptr, offset, checks) ==
  LET prod == offset * AccSize
  IN  IF prod \notin AccIsize /\ checks THEN "mul_overflow"
      ELSE validate_bytes(b, ptr, as_isize(prod))

\* limbs Bounds::is_valid_offset under debug_assert!, for `add(count)`.
is_valid_offset(b, ptr, count, checks) ==
  LET prod == count * AccSize
      bytes == prod % Pow2(AccWidth)
      result == checked_add(ptr, bytes)
  IN  IF prod > usize_MAX(AccWidth) /\ checks THEN "mul_overflow"
      ELSE IF result = None THEN "invalid_offset"
      ELSE IF ~(b.lo <= result[1] /\ result[1] <= b.hi) THEN "invalid_offset"
      ELSE "ok"

\* LimbPtr::new / LimbMutPtr::new(ptr, len) with the len field of the Int.
LimbPtr_new_signed(ptr, len) == [ptr |-> ptr, bounds |-> Bounds_new(ptr, len)]

LimbPtr_new(ptr, len) == [ptr |-> ptr, bounds |-> Bounds_new(ptr, ReprLen_len(len))]

\* Limbs::new / LimbsMut::new(ptr, len, marker) with len > 1 limbs.
Limbs_new(ptr, len) == [ptr |-> ptr, bounds |-> Bounds_new(ptr, len)]

\* A LimbPtr or LimbMutPtr is what as_ptr / as_mut_ptr return for an Int
\* whose len field is len and whose first limb (the inline limb, or the
\* start of its block) is at address ptr; a Limbs or LimbsMut is made over
\* len > 1 limbs at ptr.
AccInit ==
  /\ LifeInit
  /\ \E kind \in AccKinds, checks \in BOOLEAN, ptr \in PtrSamples,
        len \in (-MaxLimbs) .. MaxLimbs :
       /\ kind \in {"Limbs", "LimbsMut"} => len > 1
       /\ LET acc == IF kind \in {"LimbPtr", "LimbMutPtr"} THEN LimbPtr_new(ptr, len)
                     ELSE Limbs_new(ptr, len)
          IN  conv = [pc |-> "acc", kind |-> kind, checks |-> checks, first |-> ptr, len |-> len,
                      bounds |-> acc.bounds, ptr |-> acc.ptr, raw |-> acc.ptr, out |-> NoOut]

\* The limb stored at address a of the block.
Memory(a) == (a \div AccSize) % WordMod

\* self.ptr.offset(offset) / self.ptr.as_ptr().add(count): the raw pointer
\* operation, the whole of the accessor in a build without debug assertions.
\* Against the contract of the raw pointer (ub) it may give any address.
ptr_offset(ptr, count, ub) ==
  IF ub THEN 0 .. usize_MAX(AccWidth) ELSE {as_usize(ptr + count * AccSize, AccWidth)}

\* &*self.ptr / self.ptr.as_ref() / self.ptr.as_mut(): the limb the reference
\* yields; outside the block (ub) it may be any limb.
ptr_read(ptr, ub) == IF ub THEN Word ELSE {Memory(ptr)}

\* What the build without debug assertions does for op at its position raw:
\* the raw pointer operation alone.
Unchecked(op, arg, raw, ub) ==
  IF op \in {"offset", "add"}
  THEN {[ptr |-> q, limb |-> None] : q \in ptr_offset(raw, arg, ub)}
  ELSE {[ptr |-> raw, limb |-> Some(l)] : l \in ptr_read(raw, ub)}

\* The accessor after an operation with outcome res at address ptr: it goes
\* on when the operation returned, and is gone after a panic; an operation
\* that returned against the contract of the raw pointer (ub) is undefined
\* and not followed further.  The build without debug assertions runs the
\* same operation beside it from its own position conv.raw.
AccStep(op, arg, res, ptr, ub) ==
  /\ \E rel \in Unchecked(op, arg, conv.raw, ub),
        limb \in (IF op \in {"offset", "add"} \/ res # "ok" THEN {None}
                  ELSE {Some(l) : l \in ptr_read(ptr, ub)}),
        at \in (IF op \in {"offset", "add"} /\ res = "ok" /\ ub
                THEN 0 .. usize_MAX(AccWidth) ELSE {ptr}) :
       conv' = [conv EXCEPT
                  !.pc = IF res # "ok" THEN "acc_panicked"
                         ELSE IF ub THEN "acc_undefined"
                         ELSE "acc",
                  !.ptr = IF res = "ok" THEN at ELSE conv.ptr,
                  !.raw = rel.ptr,
                  !.out = [op |-> op, arg |-> arg, pre |-> conv.ptr, res |-> res,
                           limb |-> limb, raw_limb |-> rel.limb]]
  /\ UNCHANGED <<objs, heap, fault, last>>

\* unsafe { p.offset(offset) } on a LimbPtr or LimbMutPtr
Offset(offset) ==
  /\ conv.pc = "acc" /\ conv.kind \in {"LimbPtr", "LimbMutPtr"}
  /\ AccStep("offset", offset, validate_offset(conv.bounds, conv.ptr, offset, conv.checks),
             as_usize(conv.ptr + offset * AccSize, AccWidth), offset * AccSize \notin AccIsize)

\* unsafe { p.add(count) } on a Limbs or LimbsMut
Add(count) ==
  /\ conv.pc = "acc" /\ conv.kind \in {"Limbs", "LimbsMut"}
  /\ AccStep("add", count, is_valid_offset(conv.bounds, conv.ptr, count, conv.checks),
             as_usize(conv.ptr + count * AccSize, AccWidth), count * AccSize \notin AccIsize)

\* p.deref() / *p, a read
Deref ==
  /\ conv.pc = "acc"
  /\ AccStep("deref", 0, validate_deref(conv.bounds, conv.ptr), conv.ptr, FALSE)

\* p.deref_mut() / *p = .., a write: LimbMutPtr validates, DerefMut for
\* LimbsMut goes to the pointer at once.
DerefMut ==
  /\ conv.pc = "acc" /\ conv.kind \in {"LimbMutPtr", "LimbsMut"}
  /\ AccStep("deref_mut", 0,
             IF conv.kind = "LimbMutPtr" THEN validate_deref(conv.bounds, conv.ptr) ELSE "ok",
             conv.ptr, validate_deref(conv.bounds, conv.ptr) # "ok")

AccNext ==
  \/ \E offset \in AccIsize : Offset(offset)
  \/ \E count \in 0 .. usize_MAX(AccWidth) : Add(count)
  \/ Deref
  \/ DerefMut

SpecAcc == AccInit /\ [][AccNext]_vars

(***************************************************************************)
(* The copy specification: LimbsMut::copy_nonoverlapping between two       *)
(* accessors over an arena of limbs, in a build with debug assertions.     *)
(* The limb at address a is arena[a]; every limb starts with a value of    *)
(* its own.                                                                *)
(***************************************************************************)
\* Addresses of the limbs of the arena.
ArenaAddrs == {AccSize * c : c \in 1 .. (2 * MaxLimbs + 2)}
ArenaEnd == AccSize * (2 * MaxLimbs + 3)

\* Limbs::new / LimbsMut::new(ptr, len) with len > 1, then add(at).
LimbsAt(ptr, len, at) == [bounds |-> Bounds_new(ptr, len), ptr |-> ptr + at * AccSize]

\* Every accessor over a block inside the arena, at a position up to its limit.
Accessors ==
  {LimbsAt(ptr, len, at) : ptr \in ArenaAddrs, len \in 2 .. (MaxLimbs + 1), at \in 0 .. (MaxLimbs + 1)}

InArena(a) == a.bounds.hi <= ArenaEnd /\ a.ptr <= a.bounds.hi

\* Bounds::is_overlapping
is_overlapping(self, other) ==
  \/ (self.lo > other.lo /\ self.lo < other.hi)
  \/ (self.hi > other.lo /\ self.hi < other.hi)

\* The debug assertions of copy_nonoverlapping, in order.
copy_asserts(dst, src, count, checks) ==
  /\ validate_deref(dst.bounds, dst.ptr) = "ok"
  /\ is_valid_offset(dst.bounds, dst.ptr, count, checks) = "ok"
  /\ validate_deref(src.bounds, src.ptr) = "ok"
  /\ is_valid_offset(src.bounds, src.ptr, count, checks) = "ok"
  /\ ~is_overlapping(dst.bounds, src.bounds)

\* The limbs [ptr, ptr + count) as addresses.
Run(ptr, count) == {ptr + i * AccSize : i \in 0 .. (count - 1)}

\* ptr::copy_nonoverlapping(src, dst, count) of disjoint runs.
ptr_copy(mem, dst, src, count) ==
  [a \in DOMAIN mem |->
     IF a \in Run(dst, count) THEN mem[src + (a - dst)] ELSE mem[a]]

CopyInit ==
  /\ LifeInit
  /\ \E dst \in Accessors, src \in Accessors, checks \in BOOLEAN :
       /\ InArena(dst) /\ InArena(src)
       /\ conv = [pc |-> "copy_start", dst |-> dst, src |-> src, checks |-> checks,
                  arena |-> [a \in ArenaAddrs |-> a \div AccSize], out |-> NoOut]

\* unsafe { dst.copy_nonoverlapping(src, count) }: a failed assertion panics;
\* a copy between runs that share a limb, or that leave the arena, is
\* undefined and the arena is not followed further.
CopyNonoverlapping(count) ==
  /\ conv.pc = "copy_start"
  /\ LET ok == copy_asserts(conv.dst, conv.src, count, conv.checks)
         d == Run(conv.dst.ptr, count)
         r == Run(conv.src.ptr, count)
         defined == d \subseteq ArenaAddrs /\ r \subseteq ArenaAddrs /\ d \cap r = {}
     IN  conv' = [conv EXCEPT
                    !.pc = IF ~ok THEN "copy_panicked"
                           ELSE IF ~defined THEN "copy_undefined" ELSE "copy_done",
                    !.arena = IF ok /\ defined
                              THEN ptr_copy(conv.arena, conv.dst.ptr, conv.src.ptr, count)
                              ELSE conv.arena,
                    !.out = [op |-> "copy_nonoverlapping", count |-> count, pre |-> conv.arena]]
  /\ UNCHANGED <<objs, heap, fault, last>>

CopyNext == \E count \in 1 .. (MaxLimbs + 2) : CopyNonoverlapping(count)

SpecCopy == CopyInit /\ [][CopyNext]_vars

(***************************************************************************)
(* Properties.                                                             *)
(***************************************************************************)
HeapBacked(x) == (x.k = "int" /\ ~is_inline(x.len)) \/ (x.k = "ap" /\ x.len > 1)

\* The slots whose value holds address a as its heap pointer.
Owners(a) == {s \in Slots : HeapBacked(objs[s]) /\ objs[s].repr = a}

\* x's pointer refers to a live block of exactly |len| limbs.
PointsToBlock(x) == Live(heap, x.repr) /\ Len(heap[x.repr]) = ReprLen_len(x.len)

\* C1: every block obtained from the allocator is owned by exactly one live
\* value and is handed back exactly once: no live block is without an owner
\* or has two, and drop and clone_from never pass deallocate or reallocate
\* an address that is not a live block of the stated layout.
C1_SingleOwnerSingleRelease ==
  /\ ~(fault \in {"deallocate", "reallocate"} /\ last.op \in {"drop", "clone_from"})
  /\ \A a \in Addrs : Live(heap, a) => Cardinality(Owners(a)) = 1

\* C2: for every live Int, |len| > 1 exactly when its pointer member refers
\* to a live allocation of exactly |len| limbs (and |len| <= 1 exactly when
\* it has none).
C2_ReprMatchesLen ==
  \A s \in Slots : IsInt(s) => (~is_inline(objs[s].len) <=> PointsToBlock(objs[s]))

\* C3: after dst.clone_from(src), dst has the len of src and the limbs of
\* src, read through dst's own storage, and src is what it was before.
C3_CloneFromEquals ==
  (fault = "none" /\ last.op \in {"clone_from", "ap_clone_from"}) =>
    LET d == objs[last.dst]
        s == objs[last.src]
    IN  /\ d.len = s.len
        /\ LimbsOf(heap, d) # <<>>
        /\ LimbsOf(heap, d) = LimbsOf(heap, s)
        /\ Snapshot(last.src) = last.pre[1]

\* The limbs of slot s after limb i of slot w is overwritten with v.
LimbsAfterWrite(w, i, v, s) == LimbsOf(write_limb(St, w, i, v).heap, objs[s])

\* C4: the clone of a heap-backed Int owns a block other than its source's,
\* and writing any limb of either leaves the other's limbs as they were.
C4_CloneDoesNotAlias ==
  (fault = "none" /\ last.op = "clone" /\ ~is_inline(objs[last.src].len)) =>
    /\ objs[last.dst].repr # objs[last.src].repr
    /\ PointsToBlock(objs[last.dst])
    /\ \A i \in 0 .. (ReprLen_len(objs[last.src].len) - 1), v \in Word :
         /\ LimbsAfterWrite(last.src, i, v, last.dst) = LimbsOf(heap, objs[last.dst])
         /\ LimbsAfterWrite(last.dst, i, v, last.src) = LimbsOf(heap, objs[last.src])

C4_ClonedHeapInt ==
  /\ fault = "none" /\ last.op = "clone"
  /\ ~is_inline(objs[last.src].len)
  /\ \E i \in 1 .. Len(LimbsOf(heap, objs[last.src])) : LimbsOf(heap, objs[last.src])[i] # 0

\* C5: x.clone() == x, for Int and for ApInt, inline or heap-backed: the
\* clone has the len of x and, read through its own storage, the limbs of x.
C5_CloneEquals ==
  /\ (fault = "none" /\ last.op = "clone") =>
       /\ Int_eq(heap, objs[last.dst], objs[last.src])
       /\ objs[last.dst].len = objs[last.src].len
       /\ LimbsOf(heap, objs[last.dst]) = last.pre[1].limbs
  /\ (fault = "none" /\ last.op = "ap_clone") =>
       /\ ApInt_eq(ApOf(heap, objs[last.dst]), ApOf(heap, objs[last.src]))
       /\ LimbsOf(heap, objs[last.dst]) = last.pre[1].limbs

C5_ClonedThreeLimbs ==
  /\ fault = "none" /\ last.op = "clone"
  /\ objs[last.src].len = -MaxLimbs
  /\ LimbsOf(heap, objs[last.dst])[MaxLimbs] = WordMax
  /\ LimbsOf(heap, objs[last.dst])[1] = 0

\* The magnitude of a sign-magnitude Int with these limbs.
Magnitude(limbs) == LimbsPattern(limbs, Len(limbs))

\* C6: canonical form after allocate, construction from a primitive, clone
\* and clone_from: a heap-backed integer has a non-zero most significant
\* limb and a value that one limb cannot hold.
C6_Canonical ==
  (fault = "none" /\ last.op \in {"allocate", "from_usize", "from_isize", "ap_from",
                                  "clone", "clone_from", "ap_clone", "ap_clone_from"}) =>
    LET x == objs[last.dst]
        limbs == LimbsOf(heap, x)
    IN  HeapBacked(x) =>
          /\ limbs # <<>>
          /\ limbs[Len(limbs)] # 0
          /\ x.k = "int" => Magnitude(limbs) >= WordMod
          /\ x.k = "ap" => ApValue(ApOf(heap, x)) \notin ValuesOf("isize")

\* C7: an Int produced by from_usize, from_isize, from_limb, signum, abs or
\* clone that is inline has len = 0 exactly when its limb is zero.
C7_ZeroLenIffZeroLimb ==
  (fault = "none" /\ last.op \in {"from_usize", "from_isize", "signum", "abs", "clone"}) =>
    LET x == objs[last.dst]
    IN  is_inline(x.len) => (x.len = 0 <=> x.repr = 0)

C7_NegativeInline ==
  /\ fault = "none" /\ last.op = "from_isize"
  /\ objs[last.dst].len = -1
  /\ objs[last.dst].repr = -IsizeMin

\* C8: for every primitive type T and value v of T, converting v to the big
\* integer and back to T yields v.
C8_RoundTrip ==
  (conv.pc = "done" /\ conv.out.op = "extract" /\ conv.out.to = conv.ty) =>
    conv.out.cast = conv.val

\* C9: the fallible extraction of x into T returns Some(v) only for v equal
\* to x, and "does not fit" whenever x is outside the range of T.
C9_NoWrappedValue ==
  (conv.pc = "done" /\ conv.out.op = "extract") =>
    LET x == ApValue(conv.int)
    IN  /\ conv.out.try # None => conv.out.try[1] = x
        /\ x \notin ValuesOf(conv.out.to) => conv.out.try = None

\* C10: comparing the integers built from a and b, two values of one
\* primitive type, gives the Ordering of a.cmp(&b).
C10_OrderingConsistent ==
  (conv.pc = "done" /\ conv.out.op = "cmp") =>
    conv.out.ord = OrdOf(conv.val, conv.out.b)

\* The sign cmp reads: of the inline limb as isize, or the top bit of the
\* most significant heap limb.
SignRead(x) ==
  IF x.len = 1
  THEN (IF repr_signed(x.limbs[1]) < 0 THEN -1 ELSE IF x.limbs[1] = 0 THEN 0 ELSE 1)
  ELSE (IF x.limbs[x.len] >= Pow2(LimbBits - 1) THEN -1 ELSE 1)

\* The index of the most significant limb in which l and r differ, 0 if none.
RECURSIVE FirstDiff(_, _, _)
FirstDiff(l, r, i) == IF i = 0 \/ l[i] # r[i] THEN i ELSE FirstDiff(l, r, i - 1)

\* The comparison procedure; `flip` says whether the limb scan of two
\* negative values of one limb count is reversed.
Procedure(x, y, flip) ==
  LET d == FirstDiff(x.limbs, y.limbs, x.len)
      byLimb == IF d = 0 THEN "Equal" ELSE OrdOf(x.limbs[d], y.limbs[d])
  IN  IF SignRead(x) # SignRead(y) THEN OrdOf(SignRead(x), SignRead(y))
      ELSE IF x.len # y.len
      THEN (IF SignRead(x) < 0 THEN Reverse(OrdOf(x.len, y.len)) ELSE OrdOf(x.len, y.len))
      ELSE IF SignRead(x) < 0 /\ flip THEN Reverse(byLimb)
      ELSE byLimb

\* x is stored in as few limbs as its two's-complement value needs.
Minimal(x) ==
  x.len = 1 \/ ApValue(x) \notin (-Pow2(LimbBits * (x.len - 1) - 1)) .. (Pow2(LimbBits * (x.len - 1) - 1) - 1)

\* C11 (amended): cmp decides by differing signs at once, then by limb count
\* (reversed for two negatives), then by the first differing limb from the
\* most significant, as unsigned values and with NO reversal for two
\* negatives: the limbs are two's complement.  For integers stored in the
\* minimal limb count the result is the order of their values.
C11_CmpTwosComplementProcedure ==
  conv.pc = "cmp_done" =>
    /\ conv.out.ord = Procedure(conv.l, conv.r, FALSE)
    /\ (Minimal(conv.l) /\ Minimal(conv.r)) =>
         conv.out.ord = OrdOf(ApValue(conv.l), ApValue(conv.r))

C11_TwoNegativesSameCount ==
  /\ conv.pc = "cmp_done"
  /\ conv.l.len = 2 /\ conv.r.len = 2
  /\ SignRead(conv.l) = -1 /\ SignRead(conv.r) = -1
  /\ conv.l.limbs[2] = conv.r.limbs[2]
  /\ conv.l.limbs[1] < conv.r.limbs[1]
  /\ conv.out.ord = "Less"

\* C11 (as stated): cmp follows the sign-magnitude procedure, in which the
\* first differing limb decides reversed when both integers are negative.
C11_CmpSignMagnitudeProcedure ==
  conv.pc = "cmp_done" => conv.out.ord = Procedure(conv.l, conv.r, TRUE)

\* C12: l == r on two Ints is true exactly when their len fields are equal
\* and their stored limbs are identical limb for limb; Ints of different len
\* are never equal; neither operand is modified.
C12_IntEqLenAndLimbs ==
  (fault = "none" /\ last.op = "eq") =>
    LET res == last.pre[1].res
        l == Snapshot(last.dst)
        r == Snapshot(last.src)
    IN  /\ res <=> (l.len = r.len /\ l.limbs = r.limbs)
        /\ l.len # r.len => ~res
        /\ l = last.pre[1].l /\ r = last.pre[1].r

C12_EqualHeapInts ==
  /\ fault = "none" /\ last.op = "eq" /\ last.dst # last.src
  /\ last.pre[1].res
  /\ objs[last.dst].len = -MaxLimbs
  /\ LimbsOf(heap, objs[last.dst])[MaxLimbs] = WordMax

\* C13: cast equivalence: for every pair of primitive types From and To and
\* every value n of From, the infallible conversion into To of the integer
\* built from n is the native cast `n as To`.
C13_CastEquivalence ==
  (conv.pc = "done" /\ conv.out.op = "extract") =>
    conv.out.cast = Cast(conv.val, conv.out.to)

\* C14: the integer built from v is inline exactly when the bit length of
\* |v| is at most the limb width, and otherwise has exactly
\* ceil(bit_length(|v|) / limb_width) limbs, each holding its part of |v|,
\* least significant first.
C14_MinimalLimbCount ==
  conv.pc \in {"built", "done"} =>
    LET m == unsigned_abs(conv.val)
        bl == BitLen(m)
        n == (bl + LimbBits - 1) \div LimbBits
    IN  /\ conv.int.len = 1 <=> bl <= LimbBits
        /\ bl > LimbBits =>
             /\ conv.int.len = n
             /\ \A i \in 1 .. conv.int.len :
                  conv.int.limbs[i] = (m \div Pow2(LimbBits * (i - 1))) % WordMod

\* C15: allocate(n) with |n| > 1 never returns a block smaller than |n|
\* limbs: whenever |n| times the limb size overflows the address width or
\* exceeds isize::MAX bytes it ends in capacity_overflow and does not return,
\* on every pointer width.
C15_NeverTooSmall ==
  conv.pc = "alloc_done" =>
    LET out == conv.out
        bytes == out.n * LimbSize(conv.pw)
    IN  /\ out.block.res = "returned" => out.block.limbs >= out.n
        /\ bytes > isize_MAX(conv.pw) => out.block.res = "capacity_overflow"

\* The mathematical sign of an integer.
MathSign(v) == IF v > 0 THEN "Positive" ELSE IF v = 0 THEN "Zero" ELSE "Negative"

\* C16: for every usize n and isize m, from_usize(n).sign() and
\* from_isize(m).sign() are the mathematical sign of n and m, and sign() is
\* determined by len alone.
C16_SignPreserved ==
  conv.pc = "int_done" /\ conv.out.op = "sign" =>
    /\ conv.from[1] \in {"from_usize", "from_isize"} => conv.out.sign = MathSign(conv.from[2])
    /\ conv.out.sign = MathSign(conv.x.len)

\* C16 witness: the sign of from_isize(isize::MIN) has been read as Negative.
C16_SignOfIsizeMin ==
  /\ conv.pc = "int_done" /\ conv.out.op = "sign"
  /\ conv.from = <<"from_isize", IsizeMin, 0>>
  /\ conv.out.sign = "Negative"

\* C17: x == n holds iff x == Int::from_usize(n), and x == m holds iff
\* x == Int::from_isize(m), isize::MIN included; a heap-backed x equals no raw
\* value and a negative x equals no usize.
C17_RawEqAgreesWithIntEq ==
  conv.pc = "int_done" /\ conv.out.op \in {"eq_usize", "eq_isize"} =>
    LET x == conv.x
        other == IF conv.out.op = "eq_usize" THEN from_usize(conv.out.other)
                 ELSE from_isize(conv.out.other)
    IN  /\ conv.out.res = Int_eq(heap, x, other)
        /\ ~is_inline(x.len) => ~conv.out.res
        /\ conv.out.op = "eq_usize" /\ x.len < 0 => ~conv.out.res

\* C17 witness: from_isize(isize::MIN) compared with isize::MIN, equal.
C17_IsizeMinEqual ==
  /\ conv.pc = "int_done" /\ conv.out.op = "eq_isize"
  /\ conv.from = <<"from_isize", IsizeMin, 0>>
  /\ conv.out.other = IsizeMin /\ conv.out.res

\* C18: abs returns the absolute value for every Int and every value of the
\* len field: same limbs, same limb count, sign Zero for a zero input and
\* Positive otherwise, never a negative length.
C18_AbsOfEveryLen ==
  conv.pc = "int_done" /\ conv.out.op = "abs" =>
    /\ conv.out.res # None
    /\ LET x == conv.x
           r == conv.out.res[1]
       IN  /\ r.repr = x.repr
           /\ ReprLen_len(r.len) = ReprLen_len(x.len)
           /\ r.len >= 0
           /\ Int_sign(r) = IF x.len = 0 THEN "Zero" ELSE "Positive"

\* C19: offset(p, n) succeeds exactly when position + n * limb_size is
\* computable without overflow and lies in [lo, hi], for positive, zero and
\* negative n, and fails otherwise; the recorded range is unchanged, so after
\* any sequence of successful offsets lo <= position <= hi.
C19_OffsetExactlyInRange ==
  /\ conv.pc \in {"acc", "acc_panicked", "acc_undefined"} /\ conv.out.op = "offset" =>
       LET target == conv.out.pre + conv.out.arg * AccSize
       IN  conv.out.res = "ok" <=> conv.bounds.lo <= target /\ target <= conv.bounds.hi
  /\ conv.pc = "acc" /\ conv.kind \in {"LimbPtr", "LimbMutPtr"} =>
       conv.bounds.lo <= conv.ptr /\ conv.ptr <= conv.bounds.hi

\* C20: dereferencing a bounded accessor, for reading and for writing alike,
\* succeeds exactly when lo <= position < hi and fails otherwise; a position
\* one past the end is never dereferenceable.
C20_DerefExactlyInside ==
  conv.pc \in {"acc", "acc_panicked", "acc_undefined"} /\ conv.out.op \in {"deref", "deref_mut"} =>
    (conv.out.res = "ok" <=> conv.bounds.lo <= conv.out.pre /\ conv.out.pre < conv.bounds.hi)

\* The byte ranges [lo, hi) of two accessors share at least one byte.
ShareByte(a, b) == a.lo < b.hi /\ b.lo < a.hi /\ a.lo < a.hi /\ b.lo < b.hi

\* An accessor supports an access of count limbs from its position.
Supports(a, count) == a.bounds.lo <= a.ptr /\ a.ptr + count * AccSize <= a.bounds.hi

\* C21: copy_nonoverlapping(dst, src, count) fails whenever the ranges of
\* source and destination share a byte (identical ranges and one range inside
\* the other included) and whenever either accessor cannot support count
\* limbs from its position; otherwise it copies exactly count limbs and
\* changes nothing outside the destination's first count limbs.
C21_CopyFailsOnOverlap ==
  conv.pc \in {"copy_done", "copy_panicked", "copy_undefined"} =>
    LET count == conv.out.count
        must_fail == \/ ShareByte(conv.dst.bounds, conv.src.bounds)
                     \/ ~Supports(conv.dst, count)
                     \/ ~Supports(conv.src, count)
    IN  IF must_fail THEN conv.pc = "copy_panicked"
        ELSE /\ conv.pc = "copy_done"
             /\ \A a \in ArenaAddrs :
                  conv.arena[a] = IF a \in Run(conv.dst.ptr, count)
                                  THEN conv.out.pre[conv.src.ptr + (a - conv.dst.ptr)]
                                  ELSE conv.out.pre[a]

\* C22: NOT complements every stored limb (the inline limb, or each of the
\* len heap limbs) and leaves the limb count unchanged, so that for every
\* signed primitive value n, !ApInt::from(n) equals ApInt::from(!n).
C22_NotComplementsEveryLimb ==
  conv.pc = "done" /\ conv.out.op = "not" =>
    /\ conv.out.res.len = conv.int.len
    /\ \A i \in 1 .. conv.int.len : BitAnd(conv.out.res.limbs[i], conv.int.limbs[i]) = 0
                                   /\ BitOr(conv.out.res.limbs[i], conv.int.limbs[i]) = WordMax
    /\ IsSigned(conv.ty) => ApInt_eq(conv.out.res, conv.out.of_not)

\* C22 witness: NOT of a heap-backed integer built from a negative i128.
C22_NotOfNegativeHeap ==
  /\ conv.pc = "done" /\ conv.out.op = "not"
  /\ conv.ty = "i128" /\ conv.val < 0 /\ conv.int.len > 1
  /\ ApInt_eq(conv.out.res, conv.out.of_not)

\* The operations that take an Int by shared reference, and the slots of
\* the Ints they take so.
SharedRefOps == ReadOps \cup {"signum", "eq", "clone", "clone_from"}
SharedOperands(l) == IF l.op = "eq" THEN {l.dst, l.src} ELSE {l.src}

\* d.clone_from(s) on the path that calls reallocate with d's pointer.
CallsReallocate(d, s) ==
  /\ ~is_inline(objs[d].len) /\ ~is_inline(objs[s].len)
  /\ ReprLen_len(objs[d].len) # ReprLen_len(objs[s].len)

\* C23: no operation that takes an Int by shared reference (sign, signum,
\* equality against Int, usize or isize, clone, current_allocation, as_ptr,
\* clone_from for its source) changes that Int's len, its repr word or the
\* contents of its heap block, and none calls deallocate or reallocate on
\* its block.
C23_SharedRefFrame ==
  [][last'.op \in SharedRefOps =>
       /\ \A s \in SharedOperands(last') :
            /\ objs'[s] = objs[s]
            /\ ~is_inline(objs[s].len) /\ objs[s].repr \in Addrs =>
                 heap'[objs[s].repr] = heap[objs[s].repr]
       /\ last'.op = "clone_from" /\ CallsReallocate(last'.dst, last'.src) =>
            objs[last'.dst].repr # objs[last'.src].repr]_vars

\* ApInt::ZERO, ApInt::ONE
ApInt_ZERO == StackVal(0)
ApInt_ONE == StackVal(1)

\* C24: construction does not depend on the source primitive type: a value
\* representable in two types gives equal integers through both; the integer
\* built from 0 equals ZERO and converts back to 0, the integer built from 1
\* equals ONE and converts back to 1.
C24_TypeIndependentConstruction ==
  /\ conv.pc = "done" /\ conv.out.op = "rebuild" => ApInt_eq(conv.int, conv.out.int)
  /\ conv.pc \in {"built", "done"} /\ conv.val = 0 =>
       ApInt_eq(conv.int, ApInt_ZERO) /\ prim_from(conv.int, conv.ty) = 0
  /\ conv.pc \in {"built", "done"} /\ conv.val = 1 =>
       ApInt_eq(conv.int, ApInt_ONE) /\ prim_from(conv.int, conv.ty) = 1

\* The limb count of the Int or ApInt x, and whether it is heap-backed.
LimbCount(x) == IF x.k = "int" THEN ReprLen_len(x.len) ELSE x.len
OnHeap(x) == LimbCount(x) > 1

CloneFromOps == {"clone_from", "ap_clone_from"}

\* C25: when dst and src are both heap-backed, clone_from calls neither
\* allocate nor deallocate: no allocator call when their limb counts are
\* equal, exactly one reallocate (old size |dst.len|, new size |src.len|) when
\* they differ; afterwards dst owns the block reallocate returned, even at a
\* different address.
C25_CloneFromReusesBlock ==
  [][/\ last'.op \in CloneFromOps /\ fault' = "none"
     /\ OnHeap(objs[last'.dst]) /\ OnHeap(objs[last'.src])
     => LET c == last'.calls
            dl == LimbCount(objs[last'.dst])
            sl == LimbCount(objs[last'.src])
        IN  /\ \A i \in 1 .. Len(c) : c[i].fn = "reallocate"
            /\ dl = sl => c = <<>>
            /\ dl # sl =>
                 /\ Len(c) = 1
                 /\ c[1].old = dl /\ c[1].new = sl
                 /\ objs'[last'.dst].repr = c[1].ret
                 /\ Len(heap'[c[1].ret]) = sl]_vars

\* C26: when src is inline, clone_from releases dst's heap block exactly once
\* if dst was heap-backed, makes no allocate or reallocate call, and leaves
\* dst inline with src's len and src's limb.
C26_CloneFromInlineSource ==
  [][/\ last'.op \in CloneFromOps /\ fault' = "none"
     /\ ~OnHeap(objs[last'.src])
     => LET c == last'.calls
            dst == objs[last'.dst]
            src == objs[last'.src]
        IN  /\ OnHeap(dst) => Len(c) = 1 /\ c[1].fn = "deallocate" /\ c[1].ptr = dst.repr
            /\ ~OnHeap(dst) => c = <<>>
            /\ ~OnHeap(objs'[last'.dst])
            /\ objs'[last'.dst].len = src.len
            /\ objs'[last'.dst].repr = src.repr]_vars

\* C26 witness: a clone_from from an inline source has released one block and
\* left its destination inline with the source's limb.
C26_HeapDstInlineSrc ==
  /\ last.op \in CloneFromOps /\ fault = "none"
  /\ Len(last.calls) = 1 /\ last.calls[1].fn = "deallocate"
  /\ ~OnHeap(objs[last.dst])
  /\ objs[last.dst].repr = objs[last.src].repr /\ objs[last.dst].repr # 0


\* C27: dropping an Int with |len| > 1 makes exactly one allocator call,
\* deallocate with the Int's pointer and a layout of |len| limbs, and that
\* layout is the one the block at that pointer has at the time of the call
\* (the size it was allocated or last reallocated with); dropping an Int
\* with |len| <= 1 makes no allocator call.
C27_DropReleasesOwnLayout ==
  [][last'.op = "drop"
     => LET x == objs[last'.dst]
            c == last'.calls
        IN  /\ OnHeap(x) => /\ Len(c) = 1
                            /\ c[1].fn = "deallocate"
                            /\ c[1].ptr = x.repr
                            /\ c[1].old = ReprLen_len(x.len)
                            /\ c[1].had = c[1].old
            /\ ~OnHeap(x) => c = <<>>]_vars


C29_SignedMinimum ==
  (conv.pc \in {"built", "done"} /\ IsSigned(conv.ty) /\ conv.val = MinOf(conv.ty)) =>
    LET w == BitsOf(conv.ty)
        pat == Pattern(conv.val, w)
    IN  /\ ApValue(conv.int) = -Pow2(w - 1)
        /\ leading_zeros(pat, w) + leading_ones(pat, w) <= w
        /\ (conv.pc = "done" /\ conv.out.op = "extract" /\ conv.out.to = conv.ty) =>
             /\ conv.out.cast = conv.val
             /\ conv.out.try = Some(conv.val)
        /\ (conv.pc = "done" /\ conv.out.op = "from_isize") =>
             /\ conv.out.x.len = -1
             /\ conv.out.x.repr = Pow2(LimbBits - 1)
             /\ conv.out.x.repr \in Word
             /\ conv.out.eq

\* C29 witness: the minimum of the widest signed type, built on the heap in
\* two limbs and extracted back.
C29_WidestMinimumRoundTrip ==
  /\ conv.pc = "done" /\ conv.out.op = "extract"
  /\ conv.ty = "i128" /\ conv.out.to = "i128" /\ conv.val = MinOf("i128")
  /\ conv.int.len = 2 /\ conv.int.limbs[2] = Pow2(LimbBits - 1)
  /\ conv.out.cast = MinOf("i128")


\* C30: the accessor as_ptr / as_mut_ptr return for an Int with |len| = k
\* covers exactly the k limbs from the Int's first limb: its range is
\* [first, first + k limbs), a dereference succeeds exactly at the limbs
\* 0 .. k-1, an offset to limb k succeeds, and for the zero Int no
\* dereference succeeds.
C30_AsPtrCoversLen ==
  conv.pc \in {"acc", "acc_panicked", "acc_undefined"} /\ conv.kind \in {"LimbPtr", "LimbMutPtr"} =>
    LET k == IF conv.len < 0 THEN -conv.len ELSE conv.len
        limbs == {conv.first + i * AccSize : i \in 0 .. (k - 1)}
        limit == conv.first + k * AccSize
    IN  /\ conv.bounds = [lo |-> conv.first, hi |-> limit]
        /\ conv.out.op \in {"deref", "deref_mut"} =>
             /\ conv.out.res = "ok" <=> conv.out.pre \in limbs
             /\ conv.len = 0 => conv.out.res # "ok"
        /\ conv.out.op = "offset" /\ conv.out.pre + conv.out.arg * AccSize = limit =>
             conv.out.res = "ok"

\* C30 witness: the accessor of a negative Int of MaxLimbs limbs was moved to
\* limb MaxLimbs, one past its last, and the dereference there was refused.
C30_DerefRefusedAtLimit ==
  /\ conv.pc = "acc_panicked" /\ conv.kind = "LimbPtr"
  /\ conv.len = -MaxLimbs
  /\ conv.out.op = "deref" /\ conv.out.res = "invalid_deref"
  /\ conv.out.pre = conv.first + MaxLimbs * AccSize

====
